---- MODULE Spec2Model ----
(***************************************************************************)
(* A model of core/src/rule/action/modify.rs: the Modify rule (Header,     *)
(* Cookies, Body) applied to one request (modify_req) or one response      *)
(* (modify_res).                                                           *)
(*                                                                         *)
(* Text is a sequence of one-character strings.  Two tokens stand for      *)
(* characters that matter to the HTTP header types: "<E9>" is an opaque    *)
(* octet (obs-text, >= 0x80) as it may arrive in a header value, "<LF>" is *)
(* a line feed.  Body payloads are sequences of byte numbers.              *)
(***************************************************************************)
EXTENDS Integers, Sequences, FiniteSets, TLC

(***************************************************************************)
(* Bounds of the model.                                                    *)
(***************************************************************************)
\* longest MapModify list of a Header or Cookies rule
MaxEntries == 2
\* longest body payload, in bytes
MaxBodyLen == 2

(***************************************************************************)
(* Text helpers (Rust's str methods used by the source).                   *)
(***************************************************************************)
None == [some |-> FALSE, v |-> <<>>]
Some(x) == [some |-> TRUE, v |-> x]

\* s[i..] as a sequence
Drop(s, n) == SubSeq(s, n + 1, Len(s))
Take(s, n) == SubSeq(s, 1, n)

\* str::find: index (1-based) of the first occurrence of pat in s, 0 if none
RECURSIVE FindFrom(_, _, _)
FindFrom(s, pat, i) ==
    IF i + Len(pat) - 1 > Len(s) THEN 0
    ELSE IF SubSeq(s, i, i + Len(pat) - 1) = pat THEN i
    ELSE FindFrom(s, pat, i + 1)

Find(s, pat) == FindFrom(s, pat, 1)

\* str::contains
Contains(s, pat) == Find(s, pat) # 0

\* str::split(pat) for a non-empty pattern: "" splits to [""]
RECURSIVE Split(_, _)
Split(s, pat) ==
    LET i == Find(s, pat)
    IN  IF i = 0 THEN <<s>>
        ELSE <<Take(s, i - 1)>> \o Split(Drop(s, i - 1 + Len(pat)), pat)

\* [String]::join(sep)
RECURSIVE Join(_, _)
Join(parts, sep) ==
    IF parts = <<>> THEN <<>>
    ELSE IF Len(parts) = 1 THEN parts[1]
    ELSE parts[1] \o sep \o Join(Tail(parts), sep)

IsSpace(c) == c \in {" ", "<LF>"}

\* str::trim
RECURSIVE TrimStart(_)
TrimStart(s) == IF s # <<>> /\ IsSpace(Head(s)) THEN TrimStart(Tail(s)) ELSE s

RECURSIVE TrimEnd(_)
TrimEnd(s) ==
    IF s # <<>> /\ IsSpace(s[Len(s)]) THEN TrimEnd(Take(s, Len(s) - 1)) ELSE s

Trim(s) == TrimEnd(TrimStart(s))

\* str::replace(o, new): every non-overlapping occurrence, left to right; an
\* empty pattern matches before every character and at the end
RECURSIVE ReplaceNonEmpty(_, _, _)
ReplaceNonEmpty(s, o, new) ==
    LET i == Find(s, o)
    IN  IF i = 0 THEN s
        ELSE Take(s, i - 1) \o new \o ReplaceNonEmpty(Drop(s, i - 1 + Len(o)), o, new)

RECURSIVE ReplaceEmpty(_, _)
ReplaceEmpty(s, new) ==
    IF s = <<>> THEN new ELSE new \o <<Head(s)>> \o ReplaceEmpty(Tail(s), new)

StrReplace(s, o, new) ==
    IF o = <<>> THEN ReplaceEmpty(s, new) ELSE ReplaceNonEmpty(s, o, new)

(***************************************************************************)
(* TextAction: Replace, RegexReplace, TextSet and the TextModify dispatch. *)
(***************************************************************************)
\* impl TextAction for Replace
ReplaceExec(origin, new, text) ==
    IF origin.some THEN StrReplace(text, origin.v, new) ELSE new

\* get_regex(re).replace_all(origin, new) for the two patterns of the model:
\* "." (any character but a line feed) and a pattern of literal characters
RECURSIVE ReplaceAny(_, _)
ReplaceAny(s, new) ==
    IF s = <<>> THEN <<>>
    ELSE (IF Head(s) = "<LF>" THEN <<Head(s)>> ELSE new) \o ReplaceAny(Tail(s), new)

RegexReplaceAll(re, text, new) ==
    IF re = <<".">> THEN ReplaceAny(text, new) ELSE ReplaceNonEmpty(text, re, new)

\* impl TextAction for RegexReplace
RegexExec(re, new, text) == RegexReplaceAll(re, text, new)

\* impl TextAction for TextSet
TextSetExec(new, text) == new

\* enum TextModify, dispatched by enum_dispatch
ExecAction(md, text) ==
    CASE md.type = "set" -> TextSetExec(md.new, text)
      [] md.type = "plain" -> ReplaceExec(md.origin, md.new, text)
      [] md.type = "regex" -> RegexExec(md.re, md.new, text)

TextSet(new) == [type |-> "set", origin |-> None, re |-> <<>>, new |-> new]
Replace(origin, new) == [type |-> "plain", origin |-> origin, re |-> <<>>, new |-> new]
RegexReplace(re, new) == [type |-> "regex", origin |-> None, re |-> re, new |-> new]

(***************************************************************************)
(* http::HeaderValue and hyper::HeaderMap as the source uses them.  A      *)
(* header map is a function from the (lower-case) header names of the      *)
(* model to the sequence of values held under the name; the empty sequence *)
(* is an absent header.                                                    *)
(***************************************************************************)
CONTENT_TYPE == <<"c","o","n","t","e","n","t","-","t","y","p","e">>
COOKIE == <<"c","o","o","k","i","e">>
SET_COOKIE == <<"s","e","t","-","c","o","o","k","i","e">>
X_A == <<"x","-","a">>
X_B == <<"x","-","b">>

HeaderNames == {CONTENT_TYPE, COOKIE, SET_COOKIE, X_A, X_B}

EmptyHeaders == [n \in HeaderNames |-> <<>>]

IsVisibleAscii(c) == c \notin {"<E9>", "<LF>"}

\* HeaderValue::to_str: the text of a value, unless it holds an octet that
\* is not visible ASCII
ToStr(v) == IF \A i \in 1..Len(v) : IsVisibleAscii(v[i]) THEN Some(v) ELSE None

\* HeaderValue::from_str(s).is_ok(): no control character in s
FromStrOk(s) == \A i \in 1..Len(s) : s[i] # "<LF>"

\* the lower-case form HeaderName gives the letters of the model
LowerChar(c) ==
    CASE c = "A" -> "a" [] c = "B" -> "b" [] c = "X" -> "x" [] c = "H" -> "h"
      [] c = "O" -> "o" [] c = "P" -> "p" [] c = "S" -> "s" [] OTHER -> c

Lower(s) == [i \in 1..Len(s) |-> LowerChar(s[i])]

\* a &String key as a header name (AsHeaderName): names compare without
\* case; a key that is no legal header name finds nothing
HdrName(key) ==
    IF key # <<>> /\ \A i \in 1..Len(key) : key[i] \notin {" ", "<LF>", "<E9>", ";", "="}
    THEN Some(Lower(key)) ELSE None

HasHeader(h, key) ==
    LET n == HdrName(key) IN n.some /\ n.v \in DOMAIN h /\ h[n.v] # <<>>

\* HeaderMap::get / get_mut: the first value under the name
HGet(h, key) == IF HasHeader(h, key) THEN Some(h[HdrName(key).v][1]) ELSE None

\* HeaderMap::get_all
HGetAll(h, key) == IF HasHeader(h, key) THEN h[HdrName(key).v] ELSE <<>>

\* HeaderMap::remove: every value under the name goes
HRemove(h, key) ==
    IF HasHeader(h, key) THEN [h EXCEPT ![HdrName(key).v] = <<>>] ELSE h

\* HeaderMap::insert: the value replaces every value under the name
HInsert(h, name, v) == [h EXCEPT ![name] = <<v>>]

\* HeaderMap::append: the value is added after those under the name
HAppend(h, name, v) == [h EXCEPT ![name] = Append(@, v)]

\* *h = value, for h = header.get_mut(key): the first value is overwritten
HSetFirst(h, key, v) == [h EXCEPT ![HdrName(key).v] = <<v>> \o Tail(@)]

(***************************************************************************)
(* cookie::Cookie and cookie::CookieJar as the source uses them.  A cookie *)
(* is its name, its value and the attributes of the model (HttpOnly,       *)
(* Secure, Path); a jar holds at most one cookie per name and iterates in  *)
(* no specified order.                                                     *)
(***************************************************************************)
\* Cookie::new(name, value)
CookieNew(name, value) ==
    [name |-> name, value |-> value, http_only |-> FALSE, secure |-> FALSE,
     path |-> None]

\* one attribute segment of Cookie::parse
ParseAttr(c, attr) ==
    LET i == Find(attr, <<"=">>)
        key == Lower(Trim(IF i = 0 THEN attr ELSE Take(attr, i - 1)))
        val == IF i = 0 THEN None ELSE Some(Trim(Drop(attr, i)))
    IN  CASE key = <<"s","e","c","u","r","e">> -> [c EXCEPT !.secure = TRUE]
          [] key = <<"h","t","t","p","o","n","l","y">> -> [c EXCEPT !.http_only = TRUE]
          [] key = <<"p","a","t","h">> /\ val.some -> [c EXCEPT !.path = val]
          [] OTHER -> c

RECURSIVE ParseAttrs(_, _)
ParseAttrs(c, attrs) ==
    IF attrs = <<>> THEN c ELSE ParseAttrs(ParseAttr(c, Head(attrs)), Tail(attrs))

\* Cookie::parse(s): "name=value" up to the first ';', both trimmed, then the
\* attributes; no '=' or an empty name is an error
ParseCookie(s) ==
    LET parts == Split(s, <<";">>)
        kv == parts[1]
        i == Find(kv, <<"=">>)
        name == Trim(Take(kv, i - 1))
    IN  IF i = 0 \/ name = <<>> THEN None
        ELSE Some(ParseAttrs(CookieNew(name, Trim(Drop(kv, i))), Tail(parts)))

\* impl Display for Cookie (to_string)
DisplayCookie(c) ==
    c.name \o <<"=">> \o c.value
      \o (IF c.http_only THEN <<";"," ","H","t","t","p","O","n","l","y">> ELSE <<>>)
      \o (IF c.secure THEN <<";"," ","S","e","c","u","r","e">> ELSE <<>>)
      \o (IF c.path.some THEN <<";"," ","P","a","t","h","=">> \o c.path.v ELSE <<>>)

\* CookieJar::new
EmptyJar == {}

\* CookieJar::add: a cookie of the same name is replaced
JarAdd(jar, c) == {x \in jar : x.name # c.name} \cup {c}

\* CookieJar::remove(Cookie::named(name)), for a jar with no original cookies
JarRemove(jar, name) == {x \in jar : x.name # name}

\* CookieJar::get
JarGet(jar, name) ==
    IF \E x \in jar : x.name = name
    THEN Some(CHOOSE x \in jar : x.name = name) ELSE None

JarHas(jar, name) == \E x \in jar : x.name = name

\* CookieJar::iter: every order the hash set may give
RECURSIVE JarIter(_)
JarIter(jar) ==
    IF jar = {} THEN {<<>>}
    ELSE UNION {{<<x>> \o t : t \in JarIter(jar \ {x})} : x \in jar}

\* for c in segments { if let Ok(c) = Cookie::parse(c) { jar.add(c) } }
RECURSIVE AddParsed(_, _)
AddParsed(jar, segments) ==
    IF segments = <<>> THEN jar
    ELSE LET c == ParseCookie(Head(segments))
         IN  AddParsed(IF c.some THEN JarAdd(jar, c.v) ELSE jar, Tail(segments))

\* the jar of a Cookie header value: split on "; ", parse each segment
ParseCookieHeader(text) == AddParsed(EmptyJar, Split(text, <<";"," ">>))

\* jar.iter().map(|c| c.to_string()), in the order given
DisplayAll(cookies) == [i \in 1..Len(cookies) |-> DisplayCookie(cookies[i])]

(***************************************************************************)
(* Bodies.  A body is a stream: draining it (to_bytes) gives its bytes or  *)
(* fails with an error; Body::from gives a body that is already in memory. *)
(***************************************************************************)
\* the ASCII characters bodies of the model are made of, with their codes
AsciiCode ==
    [c \in {"<LF>", "1", "2", "e", "f", "o", "r", "s", "t", "x", "y", "z"} |->
        CASE c = "<LF>" -> 10 [] c = "1" -> 49 [] c = "2" -> 50 [] c = "e" -> 101
          [] c = "f" -> 102 [] c = "o" -> 111 [] c = "r" -> 114 [] c = "s" -> 115
          [] c = "t" -> 116 [] c = "x" -> 120 [] c = "y" -> 121 [] c = "z" -> 122]

AsciiChar(b) == CHOOSE c \in DOMAIN AsciiCode : AsciiCode[c] = b

\* the two-byte scalar values of the model: U+00E9 is C3 A9
ScalarChar(n) == CASE n = 233 -> "<U+E9>"

\* String::from_utf8: the text of the bytes, or an error (None)
RECURSIVE Utf8Decode(_)
Utf8Decode(bytes) ==
    IF bytes = <<>> THEN Some(<<>>)
    ELSE IF bytes[1] < 128 THEN
        LET rest == Utf8Decode(Tail(bytes))
        IN  IF rest.some THEN Some(<<AsciiChar(bytes[1])>> \o rest.v) ELSE None
    ELSE IF bytes[1] \in 194..223 /\ Len(bytes) >= 2 /\ bytes[2] \in 128..191 THEN
        LET rest == Utf8Decode(Drop(bytes, 2))
        IN  IF rest.some
            THEN Some(<<ScalarChar((bytes[1] - 192) * 64 + (bytes[2] - 128))>> \o rest.v)
            ELSE None
    ELSE None

\* the UTF-8 bytes of a text (Body::from(String))
RECURSIVE Utf8Encode(_)
Utf8Encode(text) ==
    IF text = <<>> THEN <<>>
    ELSE (IF Head(text) = "<U+E9>" THEN <<195, 169>> ELSE <<AsciiCode[Head(text)]>>)
           \o Utf8Encode(Tail(text))

\* Body::from(bytes)
BodyFrom(bytes) == [data |-> bytes, err |-> None]

\* (mutant of ToBytes: a failed read is taken for the end of the body)
ToBytesNeverFails(body) == [ok |-> TRUE, content |-> body.data, err |-> <<>>]

\* to_bytes(body).await
ToBytes(body) ==
    IF body.err.some THEN [ok |-> FALSE, content |-> <<>>, err |-> body.err.v]
    ELSE [ok |-> TRUE, content |-> body.data, err |-> <<>>]

\* StatusCode::BAD_GATEWAY
BAD_GATEWAY == 502

(***************************************************************************)
(* What a call gives back: a message ("returned": Some(req) or the         *)
(* response), no request ("none": modify_req's None) or a panic of the     *)
(* task ("panic": an unwrap of an Err).  drained records whether the call  *)
(* drained the body stream; log records each TextAction call of the rule:  *)
(* the entry's position, its key, the text passed and the text returned.   *)
(***************************************************************************)
NoMessage == [status |-> 0, headers |-> EmptyHeaders, body |-> BodyFrom(<<>>)]

Returned(m, drained, log) ==
    [tag |-> "returned", msg |-> m, drained |-> drained, log |-> log]
NoRequest(log) == [tag |-> "none", msg |-> NoMessage, drained |-> TRUE, log |-> log]
Panic(log) == [tag |-> "panic", msg |-> NoMessage, drained |-> FALSE, log |-> log]

Logged(i, key, arg, out) == [i |-> i, key |-> key, arg |-> arg, out |-> out]

(***************************************************************************)
(* Modify::Body                                                            *)
(***************************************************************************)
\* (mutant of ContentTypeGate: the value is searched as octets, readable as
\* text or not)
ContentTypeGateOctets(headers) ==
    LET ct == HGet(headers, CONTENT_TYPE)
    IN  ct.some /\
        (Contains(ct.v, <<"t","e","x","t">>)
           \/ Contains(ct.v, <<"j","a","v","a","s","c","r","i","p","t">>))

\* the content-type gate of modify_req and modify_res
ContentTypeGate(headers) ==
    LET ct == HGet(headers, CONTENT_TYPE)
    IN  ct.some /\
        LET t == ToStr(ct.v)
            content_type == IF t.some THEN t.v ELSE <<>>
        IN  Contains(content_type, <<"t","e","x","t">>)
              \/ Contains(content_type, <<"j","a","v","a","s","c","r","i","p","t">>)

\* modify_req, Modify::Body(bm)
ModifyReqBody(bm, req) ==
    IF ContentTypeGate(req.headers) THEN
        LET r == ToBytes(req.body)
        IN  IF r.ok THEN
                LET text == Utf8Decode(r.content)
                IN  IF text.some THEN
                        LET new == ExecAction(bm, text.v)
                        IN  Returned([req EXCEPT !.body = BodyFrom(Utf8Encode(new))],
                                     TRUE, <<Logged(0, <<>>, text.v, new)>>)
                    ELSE Returned([req EXCEPT !.body = BodyFrom(r.content)], TRUE, <<>>)
            ELSE NoRequest(<<>>)
    ELSE Returned(req, FALSE, <<>>)

\* modify_res, Modify::Body(bm)
ModifyResBody(bm, res) ==
    IF ContentTypeGate(res.headers) THEN
        LET r == ToBytes(res.body)
        IN  IF r.ok THEN
                LET text == Utf8Decode(r.content)
                IN  IF text.some THEN
                        LET new == ExecAction(bm, text.v)
                        IN  Returned([res EXCEPT !.body = BodyFrom(Utf8Encode(new))],
                                     TRUE, <<Logged(0, <<>>, text.v, new)>>)
                    ELSE Returned([res EXCEPT !.body = BodyFrom(r.content)], TRUE, <<>>)
            ELSE Returned([status |-> BAD_GATEWAY, headers |-> EmptyHeaders,
                           body |-> BodyFrom(Utf8Encode(r.err))], TRUE, <<>>)
    ELSE Returned(res, FALSE, <<>>)

(***************************************************************************)
(* Modify::Header: modify_header                                           *)
(***************************************************************************)
\* (mutant of ModifyHeaderEntry: a key that is missing is inserted)
ModifyHeaderEntryUpsert(st, md, i) ==
    IF md.remove THEN [st EXCEPT !.headers = HRemove(@, md.key)]
    ELSE IF md.value.some /\ HdrName(md.key).some /\ HdrName(md.key).v \in DOMAIN st.headers THEN
        LET got == HGet(st.headers, md.key)
            t == IF got.some THEN ToStr(got.v) ELSE None
            cur == IF t.some THEN t.v ELSE <<>>
            new_header_value == ExecAction(md.value.v, cur)
            log == Append(st.log, Logged(i, md.key, cur, new_header_value))
        IN  IF FromStrOk(new_header_value)
            THEN [headers |-> HInsert(st.headers, HdrName(md.key).v, new_header_value),
                  log |-> log, panic |-> FALSE]
            ELSE [st EXCEPT !.log = log, !.panic = TRUE]
    ELSE st

\* one turn of modify_header's loop, for the entry md at position i
ModifyHeaderEntry(st, md, i) ==
    IF md.remove THEN [st EXCEPT !.headers = HRemove(@, md.key)]
    ELSE IF HasHeader(st.headers, md.key) /\ md.value.some THEN
        LET t == ToStr(HGet(st.headers, md.key).v)
            cur == IF t.some THEN t.v ELSE <<>>
            new_header_value == ExecAction(md.value.v, cur)
            log == Append(st.log, Logged(i, md.key, cur, new_header_value))
        IN  IF FromStrOk(new_header_value)
            THEN [headers |-> HSetFirst(st.headers, md.key, new_header_value),
                  log |-> log, panic |-> FALSE]
            ELSE [st EXCEPT !.log = log, !.panic = TRUE]
    ELSE st

RECURSIVE ModifyHeaderFrom(_, _, _)
ModifyHeaderFrom(st, mds, i) ==
    IF i > Len(mds) \/ st.panic THEN st
    ELSE ModifyHeaderFrom(ModifyHeaderEntry(st, mds[i], i), mds, i + 1)

\* modify_header(header, mds)
ModifyHeader(header, mds) ==
    ModifyHeaderFrom([headers |-> header, log |-> <<>>, panic |-> FALSE], mds, 1)

\* modify_req and modify_res, Modify::Header(mds)
ModifyMsgHeader(mds, m) ==
    LET st == ModifyHeader(m.headers, mds)
    IN  IF st.panic THEN Panic(st.log)
        ELSE Returned([m EXCEPT !.headers = st.headers], FALSE, st.log)

(***************************************************************************)
(* Modify::Cookies                                                         *)
(***************************************************************************)
\* (mutant of CookieReqEntry: the TextAction is passed the empty string, not
\* the cookie's value)
CookieReqEntryBlind(st, c, i) ==
    IF c.remove THEN [st EXCEPT !.jar = JarRemove(@, c.key)]
    ELSE IF c.value.some THEN
        LET new_cookie_value == ExecAction(c.value.v, <<>>)
        IN  [jar |-> JarAdd(st.jar, CookieNew(c.key, new_cookie_value)),
             log |-> Append(st.log, Logged(i, c.key, <<>>, new_cookie_value))]
    ELSE [st EXCEPT !.jar = JarAdd(@, CookieNew(c.key, <<>>))]

\* one turn of modify_req's loop over cookies_mod, for the entry c at
\* position i
CookieReqEntry(st, c, i) ==
    IF c.remove THEN [st EXCEPT !.jar = JarRemove(@, c.key)]
    ELSE IF c.value.some THEN
        LET got == JarGet(st.jar, c.key)
            origin_cookie_value == IF got.some THEN got.v.value ELSE <<>>
            new_cookie_value == ExecAction(c.value.v, origin_cookie_value)
        IN  [jar |-> JarAdd(st.jar, CookieNew(c.key, new_cookie_value)),
             log |-> Append(st.log, Logged(i, c.key, origin_cookie_value,
                                           new_cookie_value))]
    ELSE [st EXCEPT !.jar = JarAdd(@, CookieNew(c.key, <<>>))]

RECURSIVE CookiesReqFrom(_, _, _)
CookiesReqFrom(st, cookies_mod, i) ==
    IF i > Len(cookies_mod) THEN st
    ELSE CookiesReqFrom(CookieReqEntry(st, cookies_mod[i], i), cookies_mod, i + 1)

\* (mutant of WriteCookieHeader: an empty jar writes no header)
WriteCookieHeaderIfAny(headers, order) ==
    IF order = <<>> THEN headers
    ELSE HInsert(headers, COOKIE, Join(DisplayAll(order), <<";"," ">>))

\* writing the jar back as the one Cookie header, the jar iterated in the
\* order given
WriteCookieHeader(headers, order) ==
    HInsert(headers, COOKIE, Join(DisplayAll(order), <<";"," ">>))

\* modify_req, Modify::Cookies(cookies_mod): every result the call may give
\* (one per iteration order of the jar)
ModifyReqCookies(cookies_mod, req) ==
    LET cookies == HGet(req.headers, COOKIE)
    IN  IF cookies.some /\ ~ToStr(cookies.v).some THEN {Panic(<<>>)}
        ELSE
          LET jar0 == IF cookies.some THEN ParseCookieHeader(cookies.v) ELSE EmptyJar
              st == CookiesReqFrom([jar |-> jar0, log |-> <<>>], cookies_mod, 1)
          IN  {IF FromStrOk(Join(DisplayAll(order), <<";"," ">>))
                 THEN Returned([req EXCEPT !.headers = WriteCookieHeader(@, order)],
                               FALSE, st.log)
                 ELSE Panic(st.log) : order \in JarIter(st.jar)}

\* (mutant of CookieResEntry: an edit reaches the Cookie jar only)
CookieResEntryOneJar(st, c, i) ==
    IF c.remove
    THEN [st EXCEPT !.cookies_jar = JarRemove(@, c.key),
                    !.set_cookies_jar = JarRemove(@, c.key)]
    ELSE LET got == JarGet(st.cookies_jar, c.key)
             origin_cookie_value == IF got.some THEN got.v.value ELSE <<>>
             new_cookie_value ==
                 IF c.value.some THEN ExecAction(c.value.v, origin_cookie_value) ELSE <<>>
         IN  [st EXCEPT !.cookies_jar = JarAdd(@, CookieNew(c.key, new_cookie_value)),
                        !.log = IF c.value.some
                                THEN Append(@, Logged(i, c.key, origin_cookie_value,
                                                      new_cookie_value))
                                ELSE @]

\* one turn of modify_res's loop over cookies_mod, for the entry c at
\* position i
CookieResEntry(st, c, i) ==
    IF c.remove
    THEN [st EXCEPT !.cookies_jar = JarRemove(@, c.key),
                    !.set_cookies_jar = JarRemove(@, c.key)]
    ELSE IF c.value.some THEN
        LET inA == JarGet(st.cookies_jar, c.key)
            inB == JarGet(st.set_cookies_jar, c.key)
            origin_cookie_value ==
                IF inA.some THEN inA.v.value
                ELSE IF inB.some THEN inB.v.value ELSE <<>>
            new_cookie_value == ExecAction(c.value.v, origin_cookie_value)
            nc == CookieNew(c.key, new_cookie_value)
        IN  [cookies_jar |-> JarAdd(st.cookies_jar, nc),
             set_cookies_jar |-> JarAdd(st.set_cookies_jar, nc),
             log |-> Append(st.log, Logged(i, c.key, origin_cookie_value,
                                           new_cookie_value))]
    ELSE [st EXCEPT !.cookies_jar = JarAdd(@, CookieNew(c.key, <<>>)),
                    !.set_cookies_jar = JarAdd(@, CookieNew(c.key, <<>>))]

RECURSIVE CookiesResFrom(_, _, _)
CookiesResFrom(st, cookies_mod, i) ==
    IF i > Len(cookies_mod) THEN st
    ELSE CookiesResFrom(CookieResEntry(st, cookies_mod[i], i), cookies_mod, i + 1)

\* header.remove(SET_COOKIE), then one header.append per cookie of the jar,
\* iterated in the order given
RECURSIVE AppendAll(_, _, _)
AppendAll(headers, name, values) ==
    IF values = <<>> THEN headers
    ELSE AppendAll(HAppend(headers, name, Head(values)), name, Tail(values))

\* (mutant of WriteSetCookieHeaders: the jar is appended to the Set-Cookie
\* headers already there)
WriteSetCookieHeadersAppended(headers, order) ==
    AppendAll(headers, SET_COOKIE, DisplayAll(order))

WriteSetCookieHeaders(headers, order) ==
    AppendAll(HRemove(headers, SET_COOKIE), SET_COOKIE, DisplayAll(order))

\* modify_res, Modify::Cookies(cookies_mod): every result the call may give
\* (one per pair of iteration orders of the two jars)
ModifyResCookies(cookies_mod, res) ==
    LET cookies == HGet(res.headers, COOKIE)
        set_cookies == HGetAll(res.headers, SET_COOKIE)
    IN  IF (cookies.some /\ ~ToStr(cookies.v).some)
             \/ \E k \in 1..Len(set_cookies) : ~ToStr(set_cookies[k]).some
        THEN {Panic(<<>>)}
        ELSE
          LET jarA == IF cookies.some THEN ParseCookieHeader(cookies.v) ELSE EmptyJar
              jarB == AddParsed(EmptyJar, set_cookies)
              st == CookiesResFrom([cookies_jar |-> jarA, set_cookies_jar |-> jarB,
                                    log |-> <<>>], cookies_mod, 1)
          IN  {IF FromStrOk(Join(DisplayAll(oa), <<";"," ">>))
                    /\ \A k \in 1..Len(ob) : FromStrOk(DisplayCookie(ob[k]))
                 THEN Returned([res EXCEPT !.headers =
                          WriteSetCookieHeaders(WriteCookieHeader(@, oa), ob)],
                          FALSE, st.log)
                 ELSE Panic(st.log)
               : oa \in JarIter(st.cookies_jar), ob \in JarIter(st.set_cookies_jar)}

(***************************************************************************)
(* The rules and messages the model applies.                               *)
(***************************************************************************)
\* TextModify values of a Body rule
BodyMods ==
    {TextSet(<<"x">>), TextSet(<<"x","<LF>">>), Replace(None, <<"y">>),
     Replace(Some(<<"1">>), <<"1","2">>), Replace(Some(<<>>), <<"z">>),
     RegexReplace(<<".">>, <<"z">>)}

\* TextModify values of the entries of a Header or Cookies rule; the second
\* computes a text that is no legal header value
MapMods ==
    {TextSet(<<"x">>), TextSet(<<"x","<LF>">>), Replace(Some(<<"1">>), <<"1","2">>)}

\* struct MapModify { key, value, remove }
MapModify(key, value, remove) == [key |-> key, value |-> value, remove |-> remove]

MapModifies(keys) ==
    {MapModify(k, v, FALSE) : k \in keys, v \in {None} \cup {Some(m) : m \in MapMods}}
      \cup {MapModify(k, v, TRUE) : k \in keys, v \in {None, Some(TextSet(<<"x">>))}}

EntryLists(entries) == UNION {[1..n -> entries] : n \in 0..MaxEntries}

\* keys of Header entries: another case of x-a, x-b, and no legal header name
HeaderKeys == {<<"X","-","A">>, X_B, <<"x"," ","a">>}

\* keys of Cookies entries
CookieKeys == {<<"a">>, <<"b">>}

\* enum Modify
HeaderRule(mds) == [kind |-> "Header", entries |-> mds, bm |-> TextSet(<<>>)]
CookiesRule(mds) == [kind |-> "Cookies", entries |-> mds, bm |-> TextSet(<<>>)]
BodyRule(bm) == [kind |-> "Body", entries |-> <<>>, bm |-> bm]

\* payload bytes: '1', and the two bytes of U+00E9 (each alone is no UTF-8)
BodyBytes == {49, 195, 169}

\* what to_bytes may fail with (the error's description)
DrainErrors == {<<"e","o","f">>, <<"r","s","t">>}

Bodies ==
    {BodyFrom(d) : d \in UNION {[1..n -> BodyBytes] : n \in 0..MaxBodyLen}}
      \cup {[data |-> <<49>>, err |-> Some(e)] : e \in DrainErrors}

\* Content-Type headers: none, text/html, image/png, application/javascript,
\* a value with "text" and an opaque octet, and two values
ContentTypes ==
    {<<>>,
     << <<"t","e","x","t","/","h","t","m","l">> >>,
     << <<"i","m","a","g","e","/","p","n","g">> >>,
     << <<"a","p","p","l","i","c","a","t","i","o","n","/",
          "j","a","v","a","s","c","r","i","p","t">> >>,
     << <<"t","e","x","t","/","<E9>">> >>,
     << <<"i","m","a","g","e","/","p","n","g">>, <<"t","e","x","t","/","h","t","m","l">> >>}

\* values of the x-a header: none, one, two, one that is not readable text
XAValues == {<<>>, << <<"1">> >>, << <<"1">>, <<"2">> >>, << <<"<E9>">> >>}
XBValues == {<<>>, << <<"2">> >>}

\* Cookie headers: none, "", "a=1", "a=1; b=2", a malformed segment, a name
\* given twice, an opaque octet
CookieHeaders ==
    {<<>>,
     << <<>> >>,
     << <<"a","=","1">> >>,
     << <<"a","=","1",";"," ","b","=","2">> >>,
     << <<"j","u","n","k",";"," ","a","=","1">> >>,
     << <<"a","=","1",";"," ","a","=","3">> >>,
     << <<"a","=","<E9>">> >>}

\* Set-Cookie headers: none, one with attributes, one for a, two cookies of
\* one name, a malformed one, an opaque octet
SetCookieHeaders ==
    {<<>>,
     << <<"b","=","2",";"," ","P","a","t","h","=","/",";"," ","s","e","c","u","r","e">> >>,
     << <<"a","=","5">> >>,
     << <<"b","=","2",";"," ","P","a","t","h","=","/">>, <<"b","=","3">> >>,
     << <<"j","u","n","k">>, <<"b","=","2">> >>,
     << <<"b","=","<E9>">> >>}

StatusOf(op) == IF op = "modify_res" THEN 200 ELSE 0

Message(op, headers, body) == [status |-> StatusOf(op), headers |-> headers, body |-> body]

BodyMessages(op) ==
    {Message(op, [EmptyHeaders EXCEPT ![CONTENT_TYPE] = ct, ![X_A] = << <<"1">> >>], b)
       : ct \in ContentTypes, b \in Bodies}

HeaderMessages(op) ==
    {Message(op, [EmptyHeaders EXCEPT ![X_A] = xa, ![X_B] = xb], BodyFrom(<<49>>))
       : xa \in XAValues, xb \in XBValues}

ReqCookieMessages ==
    {Message("modify_req", [EmptyHeaders EXCEPT ![COOKIE] = ck, ![X_A] = << <<"1">> >>],
             BodyFrom(<<49>>)) : ck \in CookieHeaders}

ResCookieMessages ==
    {Message("modify_res", [EmptyHeaders EXCEPT ![COOKIE] = ck, ![SET_COOKIE] = sc],
             BodyFrom(<<49>>)) : ck \in CookieHeaders, sc \in SetCookieHeaders}

(***************************************************************************)
(* The state of one exchange: the call made on it (op, rule, msg) and what *)
(* the call gave back (ret).  A rule is applied once to a message, which   *)
(* it consumes; no state is shared between exchanges.                      *)
(***************************************************************************)
VARIABLES op, rule, msg, ret

vars == <<op, rule, msg, ret>>

Init ==
    /\ op = "none"
    /\ rule = HeaderRule(<<>>)
    /\ msg = NoMessage
    /\ ret = Returned(NoMessage, FALSE, <<>>)

Call(o, r, m, result) ==
    /\ op' = o
    /\ rule' = r
    /\ msg' = m
    /\ ret' = result

\* modify_req(&Modify::Body(bm), req)
ReqBody ==
    /\ op = "none"
    /\ \E bm \in BodyMods, req \in BodyMessages("modify_req") :
           Call("modify_req", BodyRule(bm), req, ModifyReqBody(bm, req))

\* modify_req(&Modify::Header(hms), req)
ReqHeader ==
    /\ op = "none"
    /\ \E hms \in EntryLists(MapModifies(HeaderKeys)), req \in HeaderMessages("modify_req") :
           Call("modify_req", HeaderRule(hms), req, ModifyMsgHeader(hms, req))

\* modify_req(&Modify::Cookies(cookies_mod), req)
ReqCookies ==
    /\ op = "none"
    /\ \E cookies_mod \in EntryLists(MapModifies(CookieKeys)), req \in ReqCookieMessages :
           \E result \in ModifyReqCookies(cookies_mod, req) :
               Call("modify_req", CookiesRule(cookies_mod), req, result)

\* modify_res(&Modify::Body(bm), res)
ResBody ==
    /\ op = "none"
    /\ \E bm \in BodyMods, res \in BodyMessages("modify_res") :
           Call("modify_res", BodyRule(bm), res, ModifyResBody(bm, res))

\* modify_res(&Modify::Header(mds), res)
ResHeader ==
    /\ op = "none"
    /\ \E mds \in EntryLists(MapModifies(HeaderKeys)), res \in HeaderMessages("modify_res") :
           Call("modify_res", HeaderRule(mds), res, ModifyMsgHeader(mds, res))

\* modify_res(&Modify::Cookies(cookies_mod), res)
ResCookies ==
    /\ op = "none"
    /\ \E cookies_mod \in EntryLists(MapModifies(CookieKeys)), res \in ResCookieMessages :
           \E result \in ModifyResCookies(cookies_mod, res) :
               Call("modify_res", CookiesRule(cookies_mod), res, result)

Next ==
    \/ ReqBody
    \/ ReqHeader
    \/ ReqCookies
    \/ ResBody
    \/ ResHeader
    \/ ResCookies

Spec == Init /\ [][Next]_vars

(***************************************************************************)
(* What the properties below read off a state.                             *)
(***************************************************************************)
Called(o, kind) == op = o /\ rule.kind = kind
CalledAny(kind) == op # "none" /\ rule.kind = kind
GaveMessage == ret.tag = "returned"

\* the text of a header value as the rule reads it: empty when the value is
\* absent or is not readable as text
TextOf(values) ==
    IF values # <<>> /\ \A i \in 1..Len(values[1]) : values[1][i] \notin {"<E9>", "<LF>"}
    THEN values[1] ELSE <<>>

\* the Content-Type value, as octets, holds "text" or "javascript"
NamesTextType(headers) ==
    /\ headers[CONTENT_TYPE] # <<>>
    /\ \/ Contains(headers[CONTENT_TYPE][1], <<"t","e","x","t">>)
       \/ Contains(headers[CONTENT_TYPE][1], <<"j","a","v","a","s","c","r","i","p","t">>)

\* ... and the value is readable as text
ReadableTextType(headers) ==
    /\ NamesTextType(headers)
    /\ \A i \in 1..Len(headers[CONTENT_TYPE][1]) : headers[CONTENT_TYPE][1][i] # "<E9>"

\* C1: under a Body rule whose gate matches, a body that fails to drain gives,
\* from modify_res, a 502 response whose body is the error's description and,
\* from modify_req, no request; never the original or a transformed message.
C1_DrainFailure ==
    (CalledAny("Body") /\ ReadableTextType(msg.headers) /\ msg.body.err.some) =>
        IF op = "modify_res"
        THEN /\ GaveMessage
             /\ ret.msg.status = BAD_GATEWAY
             /\ ret.msg.body.err = None
             /\ Utf8Decode(ret.msg.body.data) = Some(msg.body.err.v)
        ELSE ret.tag = "none"

C1_Witness ==
    /\ Called("modify_res", "Body")
    /\ ReadableTextType(msg.headers)
    /\ msg.body.err = Some(<<"r","s","t">>)
    /\ ret.msg.status = BAD_GATEWAY
    /\ ret.msg.body.data = <<114, 115, 116>>

\* what a Body rule must give for a body that drains, given when it applies
BodyRuleGives(applies) ==
    /\ GaveMessage
    /\ ret.msg.headers = msg.headers
    /\ ret.msg.status = msg.status
    /\ LET text == Utf8Decode(msg.body.data)
       IN  IF applies /\ text.some
           THEN ret.msg.body = BodyFrom(Utf8Encode(ExecAction(rule.bm, text.v)))
           ELSE ret.msg.body = msg.body
    /\ ~applies => ~ret.drained

\* C2 as stated: the rule applies exactly when the Content-Type value holds
\* "text" or "javascript" (and the bytes are UTF-8).
C2_AsStated ==
    (CalledAny("Body") /\ ~msg.body.err.some) => BodyRuleGives(NamesTextType(msg.headers))

\* C2, amended: for a body that drains, a Body rule leaves the headers
\* unchanged and gives the body action.exec(text) exactly when the first
\* Content-Type value is readable as visible-ASCII text, holds "text" or
\* "javascript", and the bytes are UTF-8; otherwise the body is the input's,
\* and when the gate does not match the body is not drained at all.
C2_BodyRule ==
    /\ (CalledAny("Body") /\ ~msg.body.err.some) =>
           BodyRuleGives(ReadableTextType(msg.headers))
    /\ (CalledAny("Body") /\ ~ReadableTextType(msg.headers)) =>
           (GaveMessage /\ ret.msg = msg /\ ~ret.drained)

C2_Witness ==
    /\ Called("modify_req", "Body")
    /\ ReadableTextType(msg.headers)
    /\ msg.body = BodyFrom(<<195, 169>>)
    /\ rule.bm = Replace(Some(<<>>), <<"z">>)
    /\ ret.msg.body = BodyFrom(<<122, 195, 169, 122>>)
    /\ ret.drained

(***************************************************************************)
(* Cookies rules, read off the headers of the input and of the output.     *)
(***************************************************************************)
\* the cookies of a message's Cookie header (jar A) and of its Set-Cookie
\* headers (jar B, one parse per header)
CookiesOf(m) ==
    IF m.headers[COOKIE] = <<>> THEN {} ELSE ParseCookieHeader(m.headers[COOKIE][1])

SetCookiesOf(m) ==
    {ParseCookie(m.headers[SET_COOKIE][k]).v :
        k \in {j \in 1..Len(m.headers[SET_COOKIE]) :
                  ParseCookie(m.headers[SET_COOKIE][j]).some}}

Targeted(name) == \E i \in 1..Len(rule.entries) : rule.entries[i].key = name

\* the last entry of the rule for the name
LastFor(name) ==
    rule.entries[CHOOSE i \in 1..Len(rule.entries) :
        /\ rule.entries[i].key = name
        /\ \A j \in (i + 1)..Len(rule.entries) : rule.entries[j].key # name]

\* C3: after modify_res applies a Cookies rule, a name whose last entry is a
\* remove is in neither the Cookie header nor any Set-Cookie header of the
\* output, and any other targeted name is in both, with one value.
C3_JarsInStep ==
    (Called("modify_res", "Cookies") /\ GaveMessage) =>
        \A name \in CookieKeys : Targeted(name) =>
            LET a == {c \in CookiesOf(ret.msg) : c.name = name}
                b == {c \in SetCookiesOf(ret.msg) : c.name = name}
            IN  IF LastFor(name).remove
                THEN a = {} /\ b = {}
                ELSE /\ Cardinality(a) = 1
                     /\ Cardinality(b) = 1
                     /\ \A x \in a, y \in b : x.value = y.value

C3_Witness ==
    /\ Called("modify_res", "Cookies")
    /\ GaveMessage
    /\ msg.headers[COOKIE] = << <<"a","=","1",";"," ","b","=","2">> >>
    /\ msg.headers[SET_COOKIE] = << <<"a","=","5">> >>
    /\ rule.entries = <<MapModify(<<"a">>, None, TRUE),
                        MapModify(<<"b">>, Some(Replace(Some(<<"1">>), <<"1","2">>)), FALSE)>>
    /\ ret.msg.headers[COOKIE] = << <<"b","=","2">> >>
    /\ ret.msg.headers[SET_COOKIE] = << <<"b","=","2">> >>

\* what the Set-Cookie headers of the output must be, given the cookies of
\* the input that are to be kept
SetCookieReplaced(kept) ==
    LET out == ret.msg.headers[SET_COOKIE]
    IN  /\ \A k \in 1..Len(out) : ParseCookie(out[k]).some
        /\ \A j, k \in 1..Len(out) :
               ParseCookie(out[j]).v.name = ParseCookie(out[k]).v.name => j = k
        /\ kept \subseteq SetCookiesOf(ret.msg)
        /\ \A name \in CookieKeys : (Targeted(name) /\ ~LastFor(name).remove) =>
               \E c \in SetCookiesOf(ret.msg) : c.name = name
        /\ \A c \in SetCookiesOf(ret.msg) :
               c \in kept \/ (Targeted(c.name) /\ ~LastFor(c.name).remove)

\* the cookies of a message's Set-Cookie headers that no later Set-Cookie
\* header of the message names again
LastSetCookiesOf(m) ==
    LET h == m.headers[SET_COOKIE]
    IN  {ParseCookie(h[k]).v :
            k \in {j \in 1..Len(h) :
                      /\ ParseCookie(h[j]).some
                      /\ \A l \in (j + 1)..Len(h) :
                             ParseCookie(h[l]).some =>
                                 ParseCookie(h[l]).v.name # ParseCookie(h[j]).v.name}}

\* C4 as stated: after modify_res applies a Cookies rule, every cookie parsed
\* from a Set-Cookie header of the input and named by no entry is re-emitted
\* unchanged, every name whose last entry is not a remove is emitted, there
\* is one header per name and no other Set-Cookie header remains.
C4_AsStated ==
    (Called("modify_res", "Cookies") /\ GaveMessage) =>
        SetCookieReplaced({c \in SetCookiesOf(msg) : ~Targeted(c.name)})

\* C4, amended: the same, for every cookie parsed from a Set-Cookie header of
\* the input that is named by no entry and by no later Set-Cookie header of
\* the input (of two input cookies of one name the jar keeps the last).
C4_SetCookieReplaced ==
    (Called("modify_res", "Cookies") /\ GaveMessage) =>
        SetCookieReplaced({c \in LastSetCookiesOf(msg) : ~Targeted(c.name)})

C4_Witness ==
    /\ Called("modify_res", "Cookies")
    /\ GaveMessage
    /\ msg.headers[COOKIE] = << <<"a","=","1">> >>
    /\ msg.headers[SET_COOKIE] =
           << <<"b","=","2",";"," ","P","a","t","h","=","/",";"," ","s","e","c","u","r","e">> >>
    /\ rule.entries = <<MapModify(<<"a">>, Some(Replace(Some(<<"1">>), <<"1","2">>)), FALSE)>>
    /\ ret.msg.headers[COOKIE] = << <<"a","=","1","2">> >>
    /\ ret.msg.headers[SET_COOKIE] =
           << <<"b","=","2",";"," ","S","e","c","u","r","e",";"," ","P","a","t","h","=","/">>,
              <<"a","=","1","2">> >>

\* C10: after a Cookies rule, the output has exactly one Cookie header, also
\* when the input had none; it holds the jar (the cookies of the input, for
\* an empty entry list), and is empty when the jar is: with no entries and no
\* Cookie header the output is not the input.
C10_OneCookieHeader ==
    (CalledAny("Cookies") /\ GaveMessage) =>
        /\ Len(ret.msg.headers[COOKIE]) = 1
        /\ CookiesOf(ret.msg) = {} <=> ret.msg.headers[COOKIE] = << <<>> >>
        /\ \A name \in CookieKeys : (Targeted(name) /\ ~LastFor(name).remove) =>
               \E c \in CookiesOf(ret.msg) : c.name = name
        /\ rule.entries = <<>> => CookiesOf(ret.msg) = CookiesOf(msg)
        /\ (rule.entries = <<>> /\ msg.headers[COOKIE] = <<>>) =>
               (ret.msg.headers[COOKIE] = << <<>> >> /\ ret.msg # msg)

C10_Witness ==
    /\ Called("modify_req", "Cookies")
    /\ GaveMessage
    /\ rule.entries = <<>>
    /\ msg.headers[COOKIE] = <<>>
    /\ ret.msg.headers[COOKIE] = << <<>> >>

(***************************************************************************)
(* Header rules, and what the entries of a rule are passed.                *)
(***************************************************************************)
\* the header name an entry's key stands for
NameOf(key) == Lower(key)

NamedBy(n) == \E i \in 1..Len(rule.entries) : NameOf(rule.entries[i].key) = n

RemovedBy(n) ==
    \E i \in 1..Len(rule.entries) :
        rule.entries[i].remove /\ NameOf(rule.entries[i].key) = n

\* C5: a Header rule changes only the keys its entries name and introduces
\* none: a header named by no entry is as it was, a header that was absent
\* stays absent, a remove deletes its key and no other, and an empty list
\* leaves the message as it was.
C5_HeaderFrame ==
    (CalledAny("Header") /\ GaveMessage) =>
        /\ ret.msg.body = msg.body
        /\ ret.msg.status = msg.status
        /\ \A n \in HeaderNames :
               /\ ~NamedBy(n) => ret.msg.headers[n] = msg.headers[n]
               /\ msg.headers[n] = <<>> => ret.msg.headers[n] = <<>>
               /\ RemovedBy(n) => ret.msg.headers[n] = <<>>
               /\ (msg.headers[n] # <<>> /\ ~RemovedBy(n)) =>
                      Len(ret.msg.headers[n]) = Len(msg.headers[n])
        /\ rule.entries = <<>> => ret.msg = msg

C5_Witness ==
    /\ Called("modify_res", "Header")
    /\ GaveMessage
    /\ rule.entries = <<MapModify(<<"X","-","A">>, None, TRUE),
                        MapModify(X_B, Some(TextSet(<<"x">>)), FALSE)>>
    /\ msg.headers[X_A] = << <<"1">>, <<"2">> >>
    /\ msg.headers[X_B] = <<>>
    /\ ret.msg.headers = EmptyHeaders

\* every entry of the rule has remove = false and no value
OnlyAbsentValues ==
    /\ rule.entries # <<>>
    /\ \A i \in 1..Len(rule.entries) :
           ~rule.entries[i].remove /\ ~rule.entries[i].value.some

\* C6: an entry with remove = false and no value leaves its target as it was,
\* under a Header rule and under a Cookies rule, on a request and on a
\* response: a header or cookie keeps its value and attributes, an absent
\* key stays absent.
C6_AbsentValueUntouched ==
    (op # "none" /\ OnlyAbsentValues /\ GaveMessage) =>
        /\ rule.kind = "Header" => ret.msg.headers = msg.headers
        /\ rule.kind = "Cookies" =>
               /\ CookiesOf(ret.msg) = CookiesOf(msg)
               /\ op = "modify_res" => SetCookiesOf(ret.msg) = LastSetCookiesOf(msg)

\* C7: an entry with remove = false and a value, applied by a Header rule to
\* a key that has one or more values, leaves exactly one value under the
\* key: action.exec of the value the key had.
C7_SingleValue ==
    (CalledAny("Header") /\ GaveMessage /\ Len(rule.entries) = 1) =>
        LET md == rule.entries[1]
            n == NameOf(md.key)
        IN  (~md.remove /\ md.value.some /\ n \in HeaderNames /\ msg.headers[n] # <<>>) =>
                ret.msg.headers[n] = <<ExecAction(md.value.v, TextOf(msg.headers[n]))>>

\* C8: a Header or Cookies rule always completes and gives a message; the
\* one failure that escapes is a body that fails to drain, on a request.
C8_NoFailureEscapes ==
    op # "none" =>
        /\ rule.kind \in {"Header", "Cookies"} => GaveMessage
        /\ ~GaveMessage => (Called("modify_req", "Body") /\ msg.body.err.some)

\* the value a key had in the message as received, as the rule reads it
Received(key) ==
    IF rule.kind = "Header"
    THEN (IF NameOf(key) \in HeaderNames THEN TextOf(msg.headers[NameOf(key)]) ELSE <<>>)
    ELSE LET a == {c \in CookiesOf(msg) : c.name = key}
             b == {c \in LastSetCookiesOf(msg) : c.name = key}
         IN  IF a # {} THEN (CHOOSE c \in a : TRUE).value
             ELSE IF op = "modify_res" /\ b # {} THEN (CHOOSE c \in b : TRUE).value
             ELSE <<>>

\* the entries before position i that set or delete what the key names; an
\* entry of a Header rule with remove = false and no value does neither
Before(i, key) ==
    {j \in 1..(i - 1) :
        /\ NameOf(rule.entries[j].key) = NameOf(key)
        /\ rule.kind = "Header" => (rule.entries[j].remove \/ rule.entries[j].value.some)}

Latest(S) == CHOOSE j \in S : \A k \in S : k <= j

\* the text the entry at position i returned
OutOf(i) == (CHOOSE k \in 1..Len(ret.log) : ret.log[k].i = i)

\* C9 as stated: the text passed to each entry's TextAction is the value its
\* key had in the message as received, whatever entries precede it.
C9_AsStated ==
    (op # "none" /\ rule.kind \in {"Header", "Cookies"}) =>
        \A k \in 1..Len(ret.log) : ret.log[k].arg = Received(ret.log[k].key)

\* C9, amended: the text passed to each entry's TextAction is the value its
\* key has when the entry is applied (a header's value read as text): the
\* value as received when no earlier entry of the list names the key, and
\* otherwise what the latest such entry left (the text it computed; the
\* empty string for a cookie it removed or, having no value, set to the
\* empty string).
C9_CurrentValue ==
    (op # "none" /\ rule.kind \in {"Header", "Cookies"}) =>
        /\ \A k \in 1..Len(ret.log) :
               LET L == ret.log[k]
                   S == Before(L.i, L.key)
               IN  /\ rule.entries[L.i].key = L.key
                   /\ L.out = ExecAction(rule.entries[L.i].value.v, L.arg)
                   /\ IF S = {} THEN L.arg = Received(L.key)
                      ELSE LET md == rule.entries[Latest(S)]
                           IN  IF md.remove THEN rule.kind = "Cookies" /\ L.arg = <<>>
                               ELSE IF md.value.some
                                    THEN /\ \E m \in 1..Len(ret.log) : ret.log[m].i = Latest(S)
                                         /\ L.arg = IF rule.kind = "Header"
                                                    THEN TextOf(<<ret.log[OutOf(Latest(S))].out>>)
                                                    ELSE ret.log[OutOf(Latest(S))].out
                                    ELSE L.arg = <<>>
        /\ (GaveMessage /\ rule.kind = "Cookies") =>
               {ret.log[k].i : k \in 1..Len(ret.log)} =
                   {i \in 1..Len(rule.entries) :
                       ~rule.entries[i].remove /\ rule.entries[i].value.some}

C9_Witness ==
    /\ Called("modify_req", "Cookies")
    /\ GaveMessage
    /\ msg.headers[COOKIE] = << <<"a","=","1">> >>
    /\ Len(rule.entries) = 2
    /\ ret.log = <<Logged(1, <<"a">>, <<"1">>, <<"1","2">>),
                   Logged(2, <<"a">>, <<"1","2">>, <<"1","2","2">>)>>
    /\ ret.msg.headers[COOKIE] = << <<"a","=","1","2","2">> >>

====
